---- MODULE Spec2Model ----
(***************************************************************************)
(* The request middleware chain of Django-Middleware-0x03/chats:           *)
(* RequestLoggingMiddleware, RestrictAccessByTimeMiddleware,               *)
(* OffensiveLanguageMiddleware (the rate limiter) and                      *)
(* RolePermissionMiddleware, one thread per request, sharing the cache.    *)
(* Paths, header values and addresses are sequences of characters, so that *)
(* startswith, lower, `in' and split are computed as Python computes them. *)
(***************************************************************************)
EXTENDS Integers, Sequences, FiniteSets, TLC

\* ------------------------------------------------------------------ bounds
\* Worker threads serving requests.
NWorkers == 2
\* Last second of the observation.
MaxTime == 120
\* Qualifying POSTs one client identity gets admitted in a behaviour.
MaxPosts == 6
MaxMessages == 2
MaxThread == 4
MaxConversations == 2
MaxChatMessages == 2

\* --------------------------------------------------------- program constants
rate_limit == 5
window == 60
OpenHour == 9
CloseHour == 18
Forbidden == 403
Ok == 200
Created == 201
BadRequest == 400

\* ------------------------------------------------------------ string helpers
Range(s) == {s[i] : i \in 1..Len(s)}

\* str.startswith
StartsWith(s, prefix) ==
    /\ Len(s) >= Len(prefix)
    /\ SubSeq(s, 1, Len(prefix)) = prefix

\* the `in' operator on strings
Contains(s, sub) ==
    \E i \in 1..(Len(s) + 1) :
        /\ i + Len(sub) - 1 <= Len(s)
        /\ SubSeq(s, i, i + Len(sub) - 1) = sub

UpperChars == <<"A","B","C","D","E","F","G","H","I","J","K","L","M","N","O","P","Q","R","S","T","U","V","W","X","Y","Z">>
LowerChars == <<"a","b","c","d","e","f","g","h","i","j","k","l","m","n","o","p","q","r","s","t","u","v","w","x","y","z">>

LowerChar(c) ==
    IF \E i \in 1..Len(UpperChars) : UpperChars[i] = c
    THEN LowerChars[CHOOSE i \in 1..Len(UpperChars) : UpperChars[i] = c]
    ELSE c

\* str.lower
Lower(s) == [i \in 1..Len(s) |-> LowerChar(s[i])]

\* str.split(',')[0]: the characters before the first comma
RECURSIVE SplitFirst(_)
SplitFirst(s) ==
    IF s = <<>> \/ Head(s) = "," THEN <<>>
    ELSE <<Head(s)>> \o SplitFirst(Tail(s))

\* ------------------------------------------------------------------ literals
ChatsPrefix == <<"/","c","h","a","t","s","/">>
ApiChatsPrefix == <<"/","a","p","i","/","c","h","a","t","s","/">>
MessageWord == <<"m","e","s","s","a","g","e">>

restricted_paths ==
    { <<"/","c","h","a","t","s","/","d","e","l","e","t","e","/">>,
      <<"/","c","h","a","t","s","/","m","o","d","e","r","a","t","e","/">>,
      <<"/","a","p","i","/","c","h","a","t","s","/","d","e","l","e","t","e","/">>,
      <<"/","a","p","i","/","c","h","a","t","s","/","m","o","d","e","r","a","t","e","/">> }

\* Response bodies, cut into fragments whose concatenation is the literal.
TimeBody == <<"Chat access is ", "restricted", " to 9 AM - 6 PM. Please try again during allowed hours.">>
RateBody == <<"Rate limit exceeded", ". You can only send 5 messages per minute. Please try again later.">>
AuthBody == <<"Authentication required", ". Please log in to access this resource.">>
RoleBody == <<"Access denied. ", "Only admins and moderators", " can perform this action.">>

\* ------------------------------------------------------------ request inputs
PathChats == <<"/","c","h","a","t","s","/">>
PathSend == <<"/","c","h","a","t","s","/","m","e","s","s","a","g","e","s","/","s","e","n","d","/">>
PathApiChats == <<"/","a","p","i","/","c","h","a","t","s","/">>
PathAdmin == <<"/","a","d","m","i","n","/">>
PathApiMessages == <<"/","a","p","i","/","M","e","s","s","a","g","e","s","/">>
PathMsgDelete == <<"/","c","h","a","t","s","/","m","e","s","s","a","g","e","s","/","1","/","d","e","l","e","t","e","/">>
PathDeleteArea == <<"/","c","h","a","t","s","/","d","e","l","e","t","e","/","1","/">>
PathConvModerate == <<"/","c","h","a","t","s","/","c","o","n","v","e","r","s","a","t","i","o","n","s","/","1","/","m","o","d","e","r","a","t","e","/">>
PathApiModerate == <<"/","a","p","i","/","c","h","a","t","s","/","m","o","d","e","r","a","t","e","/","1","/">>
PathChatsBare == <<"/","c","h","a","t","s">>

Paths ==
    { PathChats, PathSend, PathApiChats, PathAdmin, PathApiMessages, PathMsgDelete,
      PathDeleteArea, PathConvModerate, PathApiModerate, PathChatsBare }

SafeMethods == {"GET", "HEAD", "OPTIONS"}
MutatingMethods == {"POST", "PUT", "PATCH", "DELETE"}
Methods == SafeMethods \cup MutatingMethods

Hours == 0..23

IpA == <<"1","0",".","0",".","0",".","1">>
IpB == <<"1","0",".","0",".","0",".","2">>
XffBviaA == <<"1","0",".","0",".","0",".","2",",","1","0",".","0",".","0",".","1">>
NoHeader == <<>>
ClientIds == {IpA, IpB}

\* request.user: the attributes the middleware reads.
Principal(name, auth, staff, super, hasProfile, profileRole, hasRole, role, perms) ==
    [ username |-> name, is_authenticated |-> auth, is_staff |-> staff,
      is_superuser |-> super, has_profile |-> hasProfile, profile_role |-> profileRole,
      has_role |-> hasRole, role |-> role, perms |-> perms ]

DeletePerm == "chats.delete_message"
ModeratePerm == "chats.moderate_conversation"

AnonymousUser == Principal("AnonymousUser", FALSE, FALSE, FALSE, FALSE, "None", FALSE, "None", {})
\* an unauthenticated principal that nevertheless carries every privilege
AnonymousPrivileged == Principal("ghost", FALSE, TRUE, TRUE, TRUE, "admin", TRUE, "admin", {DeletePerm, ModeratePerm})
RegularUser == Principal("regular", TRUE, FALSE, FALSE, FALSE, "None", FALSE, "None", {})
StaffUser == Principal("admin", TRUE, TRUE, FALSE, FALSE, "None", FALSE, "None", {})
SuperUser == Principal("root", TRUE, FALSE, TRUE, FALSE, "None", FALSE, "None", {})
ProfileAdmin == Principal("padmin", TRUE, FALSE, FALSE, TRUE, "admin", FALSE, "None", {})
ProfileModerator == Principal("pmod", TRUE, FALSE, FALSE, TRUE, "moderator", FALSE, "None", {})
ProfileUser == Principal("puser", TRUE, FALSE, FALSE, TRUE, "user", FALSE, "None", {})
DirectAdmin == Principal("dadmin", TRUE, FALSE, FALSE, FALSE, "None", TRUE, "admin", {})
DirectModerator == Principal("dmod", TRUE, FALSE, FALSE, FALSE, "None", TRUE, "moderator", {})
DirectUser == Principal("duser", TRUE, FALSE, FALSE, FALSE, "None", TRUE, "user", {})
DeleteGrantee == Principal("deleter", TRUE, FALSE, FALSE, FALSE, "None", FALSE, "None", {DeletePerm})
ModerateGrantee == Principal("moderator", TRUE, FALSE, FALSE, FALSE, "None", FALSE, "None", {ModeratePerm})
\* a profile of role "user" on a user model whose own role field says "admin"
ShadowedAdmin == Principal("shadow", TRUE, FALSE, FALSE, TRUE, "user", TRUE, "admin", {})

Principals ==
    { AnonymousUser, AnonymousPrivileged, RegularUser, StaffUser, SuperUser, ProfileAdmin,
      ProfileModerator, ProfileUser, DirectAdmin, DirectModerator, DirectUser,
      DeleteGrantee, ModerateGrantee, ShadowedAdmin }

\* A request as the first middleware receives it, with what its environment
\* will answer: the hour timezone.now() reports and whether requests.log can
\* be appended to.
Request(method, path, user, xff, remote, hour, sink) ==
    [ method |-> method, path |-> path, user |-> user,
      HTTP_X_FORWARDED_FOR |-> xff, REMOTE_ADDR |-> remote,
      hour |-> hour, sink_ok |-> sink ]

NoRequest == Request("NONE", <<>>, AnonymousUser, NoHeader, <<>>, 0, TRUE)

\* --------------------------------------------------------------------- state
VARIABLES
    clock,      \* seconds, the time datetime.now() and the cache read
    cache,      \* django.core.cache: client identity -> [value, expires]
    enforce,    \* settings.ENFORCE_CHAT_HOURS
    req,        \* worker -> the request it serves
    pc,         \* worker -> the middleware about to run for its request
    count,      \* worker -> the local `count' of the rate limiter
    resp,       \* worker -> the response returned for its request
    audit,      \* worker -> the log records written for its request
    ran,        \* worker -> the stages that have run for its request
    admitted    \* client identity -> times at which the rate limiter let a POST through

\* The database of the messaging application and the calls made on it.
VARIABLES
    users,          \* auth_user: the usernames of the rows
    messages,       \* messaging_message: the committed rows
    history,        \* messaging_messagehistory: the committed rows
    notifications,  \* messaging_notification: the committed rows
    pk,             \* table -> the last id its sequence gave out
    job             \* process -> the ORM call it is executing, with its local state

\* The conversations API and its tables.
VARIABLES
    conversations,  \* chats_conversation: the rows
    chat_messages,  \* chats_message: the rows
    api             \* the API request being served, with its response

chats == <<conversations, chat_messages, api>>

store == <<users, messages, history, notifications, pk, job, chats>>
pipeline == <<cache, enforce, req, pc, count, resp, audit, ran, admitted>>

vars == <<clock, cache, enforce, req, pc, count, resp, audit, ran, admitted, store>>

Workers == 1..NWorkers
TickSteps == {window - 1, window}
ViewStatuses == {200, 400}

NoEntry == [value |-> 0, expires |-> 0]
NoResponse == [status |-> 0, body |-> <<>>, by |-> "none"]

\* ------------------------------------------------------ the messaging tables
Usernames == {"user1", "user2"}
Contents == {"Original message", "Edited message"}

\* a NULL foreign key, an unsaved instance's pk
None == 0

\* models.Message: a row of messaging_message, or an instance in memory
Message(id, sender, receiver, content, timestamp, edited, read, parent_message) ==
    [ id |-> id, sender |-> sender, receiver |-> receiver, content |-> content,
      timestamp |-> timestamp, edited |-> edited, read |-> read,
      parent_message |-> parent_message ]

\* models.MessageHistory: a row of messaging_messagehistory
MessageHistory(id, message, old_content, edited_at) ==
    [ id |-> id, message |-> message, old_content |-> old_content, edited_at |-> edited_at ]

\* models.Notification: a row of messaging_notification
Notification(id, user, message, created_at, is_read, notification_type) ==
    [ id |-> id, user |-> user, message |-> message, created_at |-> created_at,
      is_read |-> is_read, notification_type |-> notification_type ]

NoMessage == Message(None, "", "", "", 0, FALSE, FALSE, None)

\* Nothing deleted: the rows a transaction has deleted and not yet committed.
NoDeletes == [users |-> {}, messages |-> {}, history |-> {}, notifications |-> {}]

\* A process that is executing no call.
NoJob ==
    [ op |-> "none", at |-> "idle", instance |-> NoMessage, created |-> FALSE,
      user |-> "", error |-> "none", tx |-> NoDeletes, result |-> <<>>,
      was |-> NoMessage, rows |-> {}, overwrote |-> "", gone |-> NoDeletes,
      peers |-> {}, deleted |-> {} ]

\* The users of the conversations API; request.user of a request without
\* credentials is the anonymous user.
ChatUsers == Usernames \cup {"user3"}
Anonymous == "AnonymousUser"

Conversation(id, user1, user2) == [id |-> id, user1 |-> user1, user2 |-> user2]

ChatMessage(id, sender, conversation, content) ==
    [id |-> id, sender |-> sender, conversation |-> conversation, content |-> content]

NoCall ==
    [action |-> "none", method |-> "NONE", user |-> Anonymous, conversation |-> None,
     content |-> "", at |-> "idle", status |-> None, kind |-> "none", target |-> None]

\* The database right after the migrations and the creation of the users.
EmptyStore ==
    /\ users = Usernames
    /\ messages = {}
    /\ history = {}
    /\ notifications = {}
    /\ pk = [message |-> 0, history |-> 0, notification |-> 0]
    /\ job = [w \in Workers |-> NoJob]
    /\ conversations = {}
    /\ chat_messages = {}
    /\ api = NoCall

\* -------------------------------------------------------- the middleware chain
\* settings.MIDDLEWARE, outermost first
MIDDLEWARE == <<"log", "time", "rate", "role">>

\* self.get_response of the middleware `stage': the next middleware, or the view
get_response(stage) ==
    LET i == CHOOSE k \in 1..Len(MIDDLEWARE) : MIDDLEWARE[k] = stage
    IN  IF i < Len(MIDDLEWARE) THEN MIDDLEWARE[i + 1] ELSE "view"

Free(w) == pc[w] \in {"idle", "done"}

HttpResponseForbidden(body, by) == [status |-> Forbidden, body |-> body, by |-> by]

\* mutant: the 403 response is built but not returned
ReturnFallsThrough(w, stage, response) ==
    /\ resp' = [resp EXCEPT ![w] = response]
    /\ pc' = [pc EXCEPT ![w] = get_response(stage)]

\* `return HttpResponseForbidden(...)': the middleware does not call get_response
Return(w, stage, response) ==
    /\ resp' = [resp EXCEPT ![w] = response]
    /\ pc' = [pc EXCEPT ![w] = "done"]

\* `response = self.get_response(request); return response'
CallNext(w, stage) ==
    /\ pc' = [pc EXCEPT ![w] = get_response(stage)]
    /\ UNCHANGED resp

Ran(w, stage) == ran' = [ran EXCEPT ![w] = Append(@, stage)]

\* ------------------------------------------------------------------ decisions
ChatPrefixed(path) == StartsWith(path, ChatsPrefix) \/ StartsWith(path, ApiChatsPrefix)

\* mutant: the user name is logged whether or not the user is authenticated
DisplayNameRaw(user) == user.username

\* RequestLoggingMiddleware: the user shown in the log line
DisplayName(user) == IF user.is_authenticated THEN user.username ELSE "Anonymous"

\* mutant: the time window applies to every method
TimeRestrictedAnyMethod(r) == ChatPrefixed(r.path)

\* RestrictAccessByTimeMiddleware: the requests the time window applies to
TimeRestricted(r) == ChatPrefixed(r.path) /\ r.method \in {"GET", "HEAD", "OPTIONS"}

\* mutant: the window is (9, 18] instead of [9, 18)
OutsideHoursClosed(current_hour) == current_hour <= OpenHour \/ current_hour > CloseHour

OutsideHours(current_hour) == current_hour < OpenHour \/ current_hour >= CloseHour

\* mutant: the ENFORCE_CHAT_HOURS setting is not read
TimeDeniesAlways(r) == TimeRestricted(r) /\ OutsideHours(r.hour)

TimeDenies(r) == TimeRestricted(r) /\ enforce /\ OutsideHours(r.hour)

\* mutant: staff and superusers are exempt from the rate limit
RateLimitedExemptStaff(r) ==
    /\ r.method = "POST"
    /\ \/ StartsWith(r.path, ChatsPrefix)
       \/ StartsWith(r.path, ApiChatsPrefix)
       \/ Contains(Lower(r.path), MessageWord)
    /\ ~(r.user.is_staff \/ r.user.is_superuser)

\* mutant: the rate limit applies to every method
RateLimitedAnyMethod(r) ==
    \/ StartsWith(r.path, ChatsPrefix)
    \/ StartsWith(r.path, ApiChatsPrefix)
    \/ Contains(Lower(r.path), MessageWord)

\* OffensiveLanguageMiddleware: the requests the rate limit applies to
RateLimited(r) ==
    /\ r.method = "POST"
    /\ \/ StartsWith(r.path, ChatsPrefix)
       \/ StartsWith(r.path, ApiChatsPrefix)
       \/ Contains(Lower(r.path), MessageWord)

\* mutant: the peer address is the identity, the header is not read
get_client_ip_peer(r) == r.REMOTE_ADDR

\* OffensiveLanguageMiddleware.get_client_ip
get_client_ip(r) ==
    IF r.HTTP_X_FORWARDED_FOR # <<>>
    THEN SplitFirst(r.HTTP_X_FORWARDED_FOR)
    ELSE r.REMOTE_ADDR

\* mutant: an entry reads as missing one second before its time is up
CacheGetExpiresEarly(key, default) ==
    IF cache[key] # NoEntry /\ clock + 1 < cache[key].expires
    THEN cache[key].value
    ELSE default

\* cache.get(key, default): an entry whose time is up reads as missing
CacheGet(key, default) ==
    IF cache[key] # NoEntry /\ clock < cache[key].expires
    THEN cache[key].value
    ELSE default

\* mutant: one counter for all clients
CacheSetShared(key, value, timeout) ==
    cache' = [k \in ClientIds |-> [value |-> value, expires |-> clock + timeout]]

\* cache.set(key, value, timeout)
CacheSet(key, value, timeout) ==
    cache' = [cache EXCEPT ![key] = [value |-> value, expires |-> clock + timeout]]

\* mutant: the limit is compared with > instead of >=
OverLimitOffByOne(n) == n > rate_limit

OverLimit(n) == n >= rate_limit

\* mutant: every mutating method on a chat path needs the role
requires_permission_mutating(r) ==
    \/ \E path \in restricted_paths : StartsWith(r.path, path)
    \/ r.method \in MutatingMethods /\ ChatPrefixed(r.path)

\* RolePermissionMiddleware
requires_permission(r) ==
    \/ \E path \in restricted_paths : StartsWith(r.path, path)
    \/ r.method = "DELETE" /\ ChatPrefixed(r.path)

is_admin(user) == user.is_superuser \/ user.is_staff

has_perm(user, perm) == perm \in user.perms

is_moderator(user) ==
    \/ IF user.has_profile THEN user.profile_role \in {"admin", "moderator"}
       ELSE IF user.has_role THEN user.role \in {"admin", "moderator"}
       ELSE FALSE
    \/ has_perm(user, DeletePerm)
    \/ has_perm(user, ModeratePerm)

\* mutant: the role is checked before the authentication
RoleDecisionRoleFirst(r) ==
    IF ~requires_permission(r) THEN "pass"
    ELSE IF is_admin(r.user) \/ is_moderator(r.user) THEN "pass"
    ELSE IF ~r.user.is_authenticated THEN "auth"
    ELSE "role"

\* "pass", or the reason of the refusal
RoleDecision(r) ==
    IF ~requires_permission(r) THEN "pass"
    ELSE IF ~r.user.is_authenticated THEN "auth"
    ELSE IF ~(is_admin(r.user) \/ is_moderator(r.user)) THEN "role"
    ELSE "pass"

\* -------------------------------------------------------------------- actions
\* The POSTs of client `ip' that are on their way to the rate limiter.
Pending(ip) ==
    Cardinality({ v \in Workers :
        /\ pc[v] \in {"log", "time", "rate", "rate_set"}
        /\ RateLimited(req[v])
        /\ get_client_ip(req[v]) = ip })

\* A request arrives at worker w.
Receive(w, r) ==
    /\ Free(w)
    /\ RateLimited(r) => Len(admitted[get_client_ip(r)]) + Pending(get_client_ip(r)) < MaxPosts
    /\ req' = [req EXCEPT ![w] = r]
    /\ pc' = [pc EXCEPT ![w] = Head(MIDDLEWARE)]
    /\ count' = [count EXCEPT ![w] = 0]
    /\ resp' = [resp EXCEPT ![w] = NoResponse]
    /\ audit' = [audit EXCEPT ![w] = <<>>]
    /\ ran' = [ran EXCEPT ![w] = <<>>]
    /\ UNCHANGED <<clock, cache, enforce, admitted, store>>

\* mutant: a failed append to requests.log is not caught and ends the request
LogRequestRaises(w) ==
    /\ pc[w] = "log"
    /\ Ran(w, "log")
    /\ IF req[w].sink_ok
       THEN /\ audit' = [audit EXCEPT ![w] =
                   Append(@, [channel |-> "requests.log",
                              line |-> [at |-> clock, user |-> DisplayName(req[w].user),
                                        path |-> req[w].path]])]
            /\ CallNext(w, "log")
       ELSE /\ UNCHANGED audit
            /\ Return(w, "log", [status |-> 500, body |-> <<>>, by |-> "log"])
    /\ UNCHANGED <<clock, cache, enforce, req, count, admitted, store>>

\* RequestLoggingMiddleware.__call__
LogRequest(w) ==
    /\ pc[w] = "log"
    /\ LET user == DisplayName(req[w].user)
           log_message == [at |-> clock, user |-> user, path |-> req[w].path]
       IN  audit' = [audit EXCEPT ![w] =
                Append(@, [channel |-> IF req[w].sink_ok THEN "requests.log" ELSE "logger",
                           line |-> log_message])]
    /\ Ran(w, "log")
    /\ CallNext(w, "log")
    /\ UNCHANGED <<clock, cache, enforce, req, count, admitted, store>>

\* RestrictAccessByTimeMiddleware.__call__
TimeGate(w) ==
    /\ pc[w] = "time"
    /\ Ran(w, "time")
    /\ IF TimeDenies(req[w])
       THEN Return(w, "time", HttpResponseForbidden(TimeBody, "time"))
       ELSE CallNext(w, "time")
    /\ UNCHANGED <<clock, cache, enforce, req, count, audit, admitted, store>>

\* mutant: a denied attempt is recorded too, which renews the entry's expiry
RateGetRecordsDenied(w) ==
    /\ pc[w] = "rate"
    /\ Ran(w, "rate")
    /\ IF RateLimited(req[w])
       THEN LET n == CacheGet(get_client_ip(req[w]), 0)
            IN  /\ count' = [count EXCEPT ![w] = n]
                /\ IF OverLimit(n)
                   THEN /\ Return(w, "rate", HttpResponseForbidden(RateBody, "rate"))
                        /\ CacheSet(get_client_ip(req[w]), n, window)
                   ELSE pc' = [pc EXCEPT ![w] = "rate_set"] /\ UNCHANGED <<resp, cache>>
       ELSE CallNext(w, "rate") /\ UNCHANGED <<count, cache>>
    /\ UNCHANGED <<clock, enforce, req, audit, admitted, store>>

\* OffensiveLanguageMiddleware.__call__ up to the comparison with the limit
RateGet(w) ==
    /\ pc[w] = "rate"
    /\ Ran(w, "rate")
    /\ IF RateLimited(req[w])
       THEN LET n == CacheGet(get_client_ip(req[w]), 0)
            IN  /\ count' = [count EXCEPT ![w] = n]
                /\ IF OverLimit(n)
                   THEN Return(w, "rate", HttpResponseForbidden(RateBody, "rate"))
                   ELSE pc' = [pc EXCEPT ![w] = "rate_set"] /\ UNCHANGED resp
       ELSE CallNext(w, "rate") /\ UNCHANGED count
    /\ UNCHANGED <<clock, cache, enforce, req, audit, admitted, store>>

\* OffensiveLanguageMiddleware.__call__ from cache.set on
RateSet(w) ==
    /\ pc[w] = "rate_set"
    /\ CacheSet(get_client_ip(req[w]), count[w] + 1, window)
    /\ admitted' = [admitted EXCEPT ![get_client_ip(req[w])] = Append(@, clock)]
    /\ CallNext(w, "rate")
    /\ UNCHANGED <<clock, enforce, req, count, audit, ran, store>>

\* mutant: a request the role authorizer denies gives its quota back
RoleGateRefunds(w) ==
    /\ pc[w] = "role"
    /\ Ran(w, "role")
    /\ LET d == RoleDecision(req[w])
           key == get_client_ip(req[w])
       IN  IF d = "pass" THEN CallNext(w, "role") /\ UNCHANGED cache
           ELSE /\ Return(w, "role", HttpResponseForbidden(IF d = "auth" THEN AuthBody ELSE RoleBody, "role"))
                /\ cache' = [cache EXCEPT ![key].value = IF RateLimited(req[w]) THEN @ - 1 ELSE @]
    /\ UNCHANGED <<clock, enforce, req, count, audit, admitted, store>>

\* RolePermissionMiddleware.__call__
RoleGate(w) ==
    /\ pc[w] = "role"
    /\ Ran(w, "role")
    /\ LET d == RoleDecision(req[w])
       IN  IF d = "auth" THEN Return(w, "role", HttpResponseForbidden(AuthBody, "role"))
           ELSE IF d = "role" THEN Return(w, "role", HttpResponseForbidden(RoleBody, "role"))
           ELSE CallNext(w, "role")
    /\ UNCHANGED <<clock, cache, enforce, req, count, audit, admitted, store>>

\* The view the URL resolves to.
View(w) ==
    /\ pc[w] = "view"
    /\ Ran(w, "view")
    /\ \E s \in ViewStatuses :
         resp' = [resp EXCEPT ![w] = [status |-> s, body |-> <<>>, by |-> "view"]]
    /\ pc' = [pc EXCEPT ![w] = "done"]
    /\ UNCHANGED <<clock, cache, enforce, req, count, audit, admitted, store>>

\* Time passes between requests.
Tick ==
    /\ \A w \in Workers : Free(w)
    /\ \E d \in TickSteps :
         /\ clock + d <= MaxTime
         /\ clock' = clock + d
    /\ UNCHANGED <<cache, enforce, req, pc, count, resp, audit, ran, admitted, store>>

LogStep == \E w \in Workers : LogRequest(w)
TimeStep == \E w \in Workers : TimeGate(w)
RateGetStep == \E w \in Workers : RateGet(w)
RateSetStep == \E w \in Workers : RateSet(w)
RoleStep == \E w \in Workers : RoleGate(w)
ViewStep == \E w \in Workers : View(w)

\* ------------------------------------------------------------------ workloads
\* Reads, sends and deletes of one client, in and out of the allowed hours.
PipeLoad ==
    { Request(m, p, u, NoHeader, IpA, h, TRUE) :
        m \in {"GET", "POST", "DELETE"}, p \in {PathSend, PathDeleteArea, PathAdmin},
        u \in {AnonymousUser, RegularUser, StaffUser}, h \in {8, 12} }

\* Message sends of two clients, the second behind a proxy.
RateLoad ==
    { Request("POST", PathSend, AnonymousUser, x, IpA, 12, TRUE) : x \in {NoHeader, XffBviaA} }

\* Message sends of one client.
ConcLoad == { Request("POST", PathSend, AnonymousUser, NoHeader, IpA, 12, TRUE) }

\* Every method, path and hour.
TimeLoad ==
    { Request(m, p, AnonymousUser, NoHeader, IpA, h, s) :
        m \in Methods, p \in Paths, h \in Hours, s \in BOOLEAN }

\* Every method, path and principal.
RoleLoad ==
    { Request(m, p, u, NoHeader, IpA, 12, TRUE) :
        m \in Methods, p \in Paths, u \in Principals }

\* Requests one at a time: the next one arrives when the last one is answered.
ReceiveSeq(load) ==
    /\ \A v \in Workers : Free(v)
    /\ \E r \in load : Receive(1, r)

\* Requests as they come: the first free worker takes the next one.
ReceiveConc(load) ==
    \E w \in Workers :
        /\ \A v \in 1..(w - 1) : ~Free(v)
        /\ \E r \in load : Receive(w, r)

ReceivePipe == ReceiveSeq(PipeLoad)
ReceiveRate == ReceiveSeq(RateLoad)
ReceiveConcurrent == ReceiveConc(ConcLoad)

\* ------------------------------------------------------------ specifications
Idle ==
    /\ clock = 0
    /\ cache = [k \in ClientIds |-> NoEntry]
    /\ req = [w \in Workers |-> NoRequest]
    /\ pc = [w \in Workers |-> "idle"]
    /\ count = [w \in Workers |-> 0]
    /\ resp = [w \in Workers |-> NoResponse]
    /\ audit = [w \in Workers |-> <<>>]
    /\ ran = [w \in Workers |-> <<>>]
    /\ admitted = [k \in ClientIds |-> <<>>]
    /\ EmptyStore

Init == Idle /\ enforce = TRUE

\* One request in front of the first middleware, the cache empty.
InitOne(load) ==
    /\ clock = 0
    /\ cache = [k \in ClientIds |-> NoEntry]
    /\ enforce \in BOOLEAN
    /\ \E r \in load : req = [w \in Workers |-> IF w = 1 THEN r ELSE NoRequest]
    /\ pc = [w \in Workers |-> IF w = 1 THEN Head(MIDDLEWARE) ELSE "idle"]
    /\ count = [w \in Workers |-> 0]
    /\ resp = [w \in Workers |-> NoResponse]
    /\ audit = [w \in Workers |-> <<>>]
    /\ ran = [w \in Workers |-> <<>>]
    /\ admitted = [k \in ClientIds |-> <<>>]
    /\ EmptyStore

InitTime == InitOne(TimeLoad)
InitRole == InitOne(RoleLoad)

Steps == LogStep \/ TimeStep \/ RateGetStep \/ RateSetStep \/ RoleStep \/ ViewStep

Next == ReceivePipe \/ Tick \/ LogStep \/ TimeStep \/ RateGetStep \/ RateSetStep \/ RoleStep \/ ViewStep
NextRate == ReceiveRate \/ Tick \/ LogStep \/ TimeStep \/ RateGetStep \/ RateSetStep \/ RoleStep \/ ViewStep
NextConc == ReceiveConcurrent \/ Tick \/ LogStep \/ TimeStep \/ RateGetStep \/ RateSetStep \/ RoleStep \/ ViewStep
NextOne == LogStep \/ TimeStep \/ RateGetStep \/ RateSetStep \/ RoleStep \/ ViewStep

\* the whole chain, one client, one request at a time
Spec == Init /\ [][Next]_vars
\* the rate limiter, two clients, one request at a time
SpecRate == Init /\ [][NextRate]_vars
\* the rate limiter, one client, requests served concurrently
SpecConc == Init /\ [][NextConc]_vars
\* one request of any method, path and hour
SpecTime == InitTime /\ [][NextOne]_vars
\* one request of any method, path and principal
SpecRole == InitRole /\ [][NextOne]_vars

\* The same request served twice, by worker 1 with requests.log writable and by
\* worker 2 with the append failing; the two come from different addresses so
\* that neither uses up the other's quota.
SinkLoad ==
    { Request(m, p, u, NoHeader, IpA, h, TRUE) :
        m \in {"GET", "POST", "DELETE"}, p \in {PathSend, PathDeleteArea, PathAdmin},
        u \in {AnonymousUser, RegularUser, StaffUser}, h \in {8, 12} }

SinkFails(r) == [r EXCEPT !.REMOTE_ADDR = IpB, !.sink_ok = FALSE]

\* The state five admitted POSTs at second 0 leave for an address.
Exhausted == [value |-> rate_limit, expires |-> window]

InitSink ==
    /\ clock = 0
    /\ enforce \in BOOLEAN
    /\ \E full \in BOOLEAN :
         /\ cache = [k \in ClientIds |-> IF full THEN Exhausted ELSE NoEntry]
         /\ admitted = [k \in ClientIds |-> IF full THEN <<0, 0, 0, 0, 0>> ELSE <<>>]
    /\ \E r \in SinkLoad :
         req = [w \in Workers |-> IF w = 1 THEN r ELSE IF w = 2 THEN SinkFails(r) ELSE NoRequest]
    /\ pc = [w \in Workers |-> IF w \in {1, 2} THEN Head(MIDDLEWARE) ELSE "idle"]
    /\ count = [w \in Workers |-> 0]
    /\ resp = [w \in Workers |-> NoResponse]
    /\ audit = [w \in Workers |-> <<>>]
    /\ ran = [w \in Workers |-> <<>>]
    /\ EmptyStore

\* one request with a working and with a failing audit sink
SpecSink == InitSink /\ [][NextOne]_vars

\* Reads and writes of one client on message, chat and other paths.
MixLoad ==
    { Request(m, p, AnonymousUser, NoHeader, IpA, 12, TRUE) :
        m \in {"GET", "POST", "PUT"}, p \in {PathSend, PathApiMessages, PathChatsBare, PathAdmin} }

ReceiveMix == ReceiveSeq(MixLoad)
NextMix == ReceiveMix \/ Tick \/ LogStep \/ TimeStep \/ RateGetStep \/ RateSetStep \/ RoleStep \/ ViewStep
\* the rate limiter among requests it does not apply to
SpecMix == Init /\ [][NextMix]_vars

\* Message sends from two peer addresses, direct and with a forwarded-for
\* header that names the peer itself or another client.
IdentLoad ==
    { Request("POST", PathSend, AnonymousUser, x, a, 12, TRUE) :
        x \in {NoHeader, IpA, XffBviaA}, a \in {IpA, IpB} }

ReceiveIdent == ReceiveSeq(IdentLoad)
NextIdent == ReceiveIdent \/ LogStep \/ TimeStep \/ RateGetStep \/ RateSetStep \/ RoleStep \/ ViewStep
\* the rate limiter's client identity, within one minute
SpecIdent == Init /\ [][NextIdent]_vars

\* Requests one at a time, served by whichever worker: the response of an
\* earlier request stays with the worker that served it.
ReceiveTurn(load) ==
    /\ \A v \in Workers : Free(v)
    /\ \E w \in Workers, r \in load : Receive(w, r)

ReceiveLockout == ReceiveTurn(ConcLoad)
NextLockout == ReceiveLockout \/ Tick \/ LogStep \/ TimeStep \/ RateGetStep \/ RateSetStep \/ RoleStep \/ ViewStep
\* one client sending on after it was denied
SpecLockout == Init /\ [][NextLockout]_vars

NextRace == ReceiveConcurrent \/ LogStep \/ TimeStep \/ RateGetStep \/ RateSetStep \/ RoleStep \/ ViewStep
\* the rate limiter, one client, requests served concurrently within one minute
SpecRace == Init /\ [][NextRace]_vars

\* ------------------------------------------------------- the message store
\* The fields models.py declares for a history row.
MessageHistoryFields == {"id", "message", "old_content", "edited_at"}

\* The keyword arguments log_message_edits passes to MessageHistory.objects.create.
HistoryKwargs(instance, old_message) ==
    [ message |-> instance.id, old_content |-> old_message.content,
      edited_by |-> instance.sender ]

\* Model.__init__ takes a keyword argument only if it names a field; QuerySet.filter
\* resolves a keyword only if it names a field.
Accepts(fields, names) == names \subseteq fields

Ids(rows) == { r.id : r \in rows }
Row(rows, id) == CHOOSE r \in rows : r.id = id
Busy(w) == job[w].at # "idle"
SetJob(w, j) == job' = [job EXCEPT ![w] = j]

\* mutant: the cascade stops at the direct replies
RepliesDirect(rows, ids) ==
    ids \cup { m.id : m \in { x \in rows : x.parent_message \in ids } }

\* on_delete=CASCADE of parent_message: the messages deleted along with `ids'
RECURSIVE Replies(_, _)
Replies(rows, ids) ==
    LET more == { m.id : m \in { x \in rows : x.parent_message \in ids } }
    IN  IF more \subseteq ids THEN ids ELSE Replies(rows, ids \cup more)

\* mutant: the foreign keys of the history and notification rows do not cascade
CollectMessagesOnly(ids, seen) ==
    [ users |-> {},
      messages |-> Replies({ m \in messages : m.id \notin seen.messages }, ids),
      history |-> {},
      notifications |-> {} ]

\* What deleting the messages `ids' deletes: their replies, history and notifications.
CollectMessages(ids, seen) ==
    LET gone == Replies({ m \in messages : m.id \notin seen.messages }, ids)
    IN  [ users |-> {},
          messages |-> gone,
          history |-> { h.id : h \in { x \in history : x.message \in gone } },
          notifications |-> { n.id : n \in { x \in notifications : x.message \in gone } } ]

\* What deleting user `u' deletes: the user, the messages sent or received,
\* the notifications addressed to the user, and what those take along.
CollectUser(u) ==
    LET own == { m.id : m \in { x \in messages : x.sender = u \/ x.receiver = u } }
        c == CollectMessages(own, NoDeletes)
    IN  [ c EXCEPT !.users = {u},
                   !.notifications = @ \cup { n.id : n \in { x \in notifications : x.user = u } } ]

Merge(a, b) ==
    [ users |-> a.users \cup b.users, messages |-> a.messages \cup b.messages,
      history |-> a.history \cup b.history,
      notifications |-> a.notifications \cup b.notifications ]

\* COMMIT of the deletes `d'
Commit(d) ==
    /\ users' = users \ d.users
    /\ messages' = { m \in messages : m.id \notin d.messages }
    /\ history' = { h \in history : h.id \notin d.history }
    /\ notifications' = { n \in notifications : n.id \notin d.notifications }

\* A row of `ids' is deleted in a transaction that is still open: a writer of
\* that row waits for the transaction to end.
Locked(ids) == \E v \in Workers : job[v].tx.messages \cap ids # {}

\* Message.objects.create(sender, receiver, content, parent_message): save() begins.
Create(w, sender, receiver, content, parent) ==
    /\ ~Busy(w)
    /\ parent \in Ids(messages) \cup {None}
    /\ SetJob(w, [NoJob EXCEPT !.op = "create", !.at = "pre_save", !.user = sender,
                               !.rows = history,
                               !.instance = Message(None, sender, receiver, content, 0,
                                                    FALSE, FALSE, parent)])
    /\ UNCHANGED <<users, messages, history, notifications, pk, clock, pipeline, chats>>

\* message = Message.objects.get(pk=...); message.content = ...; message.read = ...;
\* message.save() begins, asked for by `editor'.
Save(w, editor, m, content, read) ==
    /\ ~Busy(w)
    /\ m \in messages
    /\ SetJob(w, [NoJob EXCEPT !.op = "save", !.at = "pre_save", !.user = editor,
                               !.was = m, !.rows = history,
                               !.peers = { v \in Workers \ {w} :
                                             job[v].at \notin {"idle", "done"} },
                               !.instance = [m EXCEPT !.content = content, !.read = read]])
    /\ UNCHANGED <<users, messages, history, notifications, pk, clock, pipeline, chats>>

\* pre_save receiver of Message
log_message_edits(w) ==
    LET instance == job[w].instance IN
    /\ job[w].at = "pre_save"
    /\ IF instance.id # None /\ instance.id \in Ids(messages)
       THEN LET old_message == Row(messages, instance.id) IN
            IF old_message.content # instance.content
            THEN LET kwargs == HistoryKwargs(instance, old_message) IN
                 IF Accepts(MessageHistoryFields, DOMAIN kwargs)
                 THEN /\ history' = history \cup
                            { kwargs @@ [id |-> pk.history + 1, edited_at |-> clock] }
                      /\ pk' = [pk EXCEPT !.history = @ + 1]
                      /\ SetJob(w, [job[w] EXCEPT !.at = "save_table",
                                                  !.instance.edited = TRUE])
                 ELSE \* TypeError: save() is left before anything is written
                      /\ SetJob(w, [job[w] EXCEPT !.at = "done", !.error = "TypeError"])
                      /\ UNCHANGED <<history, pk>>
            ELSE /\ SetJob(w, [job[w] EXCEPT !.at = "save_table"])
                 /\ UNCHANGED <<history, pk>>
       ELSE /\ SetJob(w, [job[w] EXCEPT !.at = "save_table"])
            /\ UNCHANGED <<history, pk>>
    /\ UNCHANGED <<users, messages, notifications, clock, pipeline, chats>>

\* Model.save_base -> _save_table: UPDATE the row of the instance's pk, INSERT
\* when the instance has no pk or the UPDATE matched no row.
save_table(w) ==
    LET instance == job[w].instance
        update == instance.id # None /\ instance.id \in Ids(messages)
        id == IF instance.id # None THEN instance.id ELSE pk.message + 1
        row == IF update THEN instance
               ELSE [instance EXCEPT !.id = id, !.timestamp = clock + 1]
        intact == /\ row.sender \in users
                  /\ row.receiver \in users
                  /\ row.parent_message \in Ids(messages) \cup {None}
    IN
    /\ job[w].at = "save_table"
    /\ ~Locked({id})
    /\ IF intact
       THEN /\ messages' = { m \in messages : m.id # id } \cup {row}
            /\ pk' = IF instance.id = None THEN [pk EXCEPT !.message = id] ELSE pk
            /\ clock' = IF update THEN clock ELSE clock + 1
            /\ SetJob(w, [job[w] EXCEPT !.at = "post_save", !.instance = row,
                                        !.created = ~update,
                                        !.overwrote = IF update
                                                      THEN Row(messages, id).content
                                                      ELSE ""])
       ELSE \* IntegrityError: a foreign key points at no row
            /\ SetJob(w, [job[w] EXCEPT !.at = "done", !.error = "IntegrityError"])
            /\ UNCHANGED <<messages, pk, clock>>
    /\ UNCHANGED <<users, history, notifications, pipeline, chats>>

\* mutant: a notification for every save, not only for the one that inserts
NotifiesEverySave(created) == TRUE

\* create_message_notification: `if created'
Notifies(created) == created

\* mutant: the notification is addressed to the sender of the message
create_message_notification_sender(w) ==
    LET instance == job[w].instance IN
    /\ job[w].at = "post_save"
    /\ IF Notifies(job[w].created)
       THEN /\ notifications' = notifications \cup
                   { Notification(pk.notification + 1, instance.sender, instance.id,
                                  clock, FALSE, "new_message") }
            /\ pk' = [pk EXCEPT !.notification = @ + 1]
            /\ SetJob(w, [job[w] EXCEPT !.at = "done"])
       ELSE /\ SetJob(w, [job[w] EXCEPT !.at = "done"])
            /\ UNCHANGED <<notifications, pk>>
    /\ UNCHANGED <<users, messages, history, clock, pipeline, chats>>

\* post_save receiver of Message
create_message_notification(w) ==
    LET instance == job[w].instance IN
    /\ job[w].at = "post_save"
    /\ IF Notifies(job[w].created)
       THEN IF instance.receiver \in users /\ instance.id \in Ids(messages)
            THEN /\ notifications' = notifications \cup
                        { Notification(pk.notification + 1, instance.receiver, instance.id,
                                       clock, FALSE, "new_message") }
                 /\ pk' = [pk EXCEPT !.notification = @ + 1]
                 /\ SetJob(w, [job[w] EXCEPT !.at = "done"])
            ELSE /\ SetJob(w, [job[w] EXCEPT !.at = "done", !.error = "IntegrityError"])
                 /\ UNCHANGED <<notifications, pk>>
       ELSE /\ SetJob(w, [job[w] EXCEPT !.at = "done"])
            /\ UNCHANGED <<notifications, pk>>
    /\ UNCHANGED <<users, messages, history, clock, pipeline, chats>>

\* MessageViewSet.destroy: instance.delete(), one transaction
DeleteMessage(w, m) ==
    /\ ~Busy(w)
    /\ m \in messages
    /\ ~Locked(CollectMessages({m.id}, NoDeletes).messages)
    /\ Commit(CollectMessages({m.id}, NoDeletes))
    /\ SetJob(w, [NoJob EXCEPT !.op = "delete_message", !.at = "done", !.was = m,
                               !.deleted = { x \in messages :
                                   x.id \in CollectMessages({m.id}, NoDeletes).messages }])
    /\ UNCHANGED <<pk, clock, pipeline, chats>>

\* mutant: no transaction, every DELETE of the cascade is committed as it is
\* made, the rows that refer to the user first and the user's own row last
ExposedAutocommit(d) == [d EXCEPT !.users = {}]

\* transaction.atomic around the cascade of user.delete(): what the other
\* connections see, before the COMMIT, of the deletes `d' made so far
Exposed(d) == NoDeletes

\* delete_user: user.delete() opens a transaction and deletes the user with
\* everything that cascades from it; nothing is committed yet.
delete_user(w, u) ==
    /\ ~Busy(w)
    /\ u \in users
    /\ ~Locked(CollectUser(u).messages)
    /\ SetJob(w, [NoJob EXCEPT !.op = "delete_user", !.at = "post_delete", !.user = u,
                               !.tx = CollectUser(u), !.gone = CollectUser(u)])
    /\ Commit(Exposed(CollectUser(u)))
    /\ UNCHANGED <<pk, clock, pipeline, chats>>

\* post_delete receiver of User, inside the transaction of user.delete()
cleanup_user_data(w) ==
    LET instance == job[w].user
        tx == job[w].tx
        sent == { m.id : m \in { x \in messages : x.id \notin tx.messages /\ x.sender = instance } }
        tx1 == Merge(tx, CollectMessages(sent, tx))
        received == { m.id : m \in { x \in messages : x.id \notin tx1.messages /\ x.receiver = instance } }
        tx2 == Merge(tx1, CollectMessages(received, tx1))
        tx3 == [ tx2 EXCEPT !.notifications =
                    @ \cup { n.id : n \in { x \in notifications : x.user = instance } } ]
    IN
    /\ job[w].at = "post_delete"
    /\ IF Accepts(MessageHistoryFields, {"edited_by"})
       THEN /\ Commit([ tx3 EXCEPT !.history =
                          @ \cup { h.id : h \in { x \in history : x.edited_by = instance } } ])
            /\ SetJob(w, [job[w] EXCEPT !.at = "done", !.tx = NoDeletes])
       ELSE \* FieldError: the transaction is rolled back
            /\ SetJob(w, [job[w] EXCEPT !.at = "done", !.tx = NoDeletes, !.error = "FieldError"])
            /\ UNCHANGED <<users, messages, history, notifications>>
    /\ UNCHANGED <<pk, clock, pipeline, chats>>

\* The orders in which a query with no order_by may return the rows `ids'.
Orderings(ids) ==
    { f \in [1..Cardinality(ids) -> ids] :
        \A i \in DOMAIN f, j \in DOMAIN f : i # j => f[i] # f[j] }

\* mutant: the filter of get_thread, the message and its direct replies only
ThreadFilterOneLevel(message, x) ==
    \/ x.id = message.id
    \/ x.parent_message = message.id

\* MessageManager.get_conversation_thread: the filter, for the row x
ThreadFilter(message, x) ==
    \/ x.id = message.id
    \/ x.parent_message = message.id
    \/ /\ x.parent_message \in Ids(messages)
       /\ Row(messages, x.parent_message).parent_message = message.id

\* Message.objects.get_conversation_thread(message), evaluated
get_conversation_thread(w, message) ==
    /\ ~Busy(w)
    /\ message \in messages
    /\ \E rows \in Orderings({ x.id : x \in { y \in messages : ThreadFilter(message, y) } }) :
         SetJob(w, [NoJob EXCEPT !.op = "get_conversation_thread", !.at = "done",
                                 !.was = message, !.result = rows])
    /\ UNCHANGED <<users, messages, history, notifications, pk, clock, pipeline, chats>>

\* mutant: the manager's get_queryset does not filter on read
ForUserFilterAnyRead(user, x) == x.receiver = user

\* UnreadMessagesManager: get_queryset's filter(read=False), then for_user's
\* filter(receiver=user), for the row x
ForUserFilter(user, x) == x.read = FALSE /\ x.receiver = user

\* Message.unread.for_user(user), evaluated
for_user(w, user) ==
    /\ ~Busy(w)
    /\ \E rows \in Orderings({ x.id : x \in { y \in messages : ForUserFilter(user, y) } }) :
         SetJob(w, [NoJob EXCEPT !.op = "for_user", !.at = "done", !.user = user,
                                 !.result = rows])
    /\ UNCHANGED <<users, messages, history, notifications, pk, clock, pipeline, chats>>

\* The call has returned: the process drops its local state.
Finish(w) ==
    /\ job[w].at = "done"
    /\ job' = [ v \in Workers |->
                  IF v = w THEN NoJob ELSE [job[v] EXCEPT !.peers = @ \ {w}] ]
    /\ UNCHANGED <<users, messages, history, notifications, pk, clock, pipeline, chats>>

\* Calls one at a time: the first process takes the next call when none is running.
Quiet == \A v \in Workers : ~Busy(v)

CreateStep ==
    /\ Quiet
    /\ pk.message < MaxMessages
    /\ \E sender \in Usernames, receiver \in Usernames, content \in Contents,
          parent \in 0..MaxMessages :
         sender # receiver /\ Create(1, sender, receiver, content, parent)
SaveStep ==
    /\ Quiet
    /\ \E editor \in Usernames, m \in messages, content \in Contents, read \in BOOLEAN :
         Save(1, editor, m, content, read)
DeleteMessageStep == Quiet /\ \E m \in messages : DeleteMessage(1, m)
DeleteUserStep == Quiet /\ \E u \in Usernames : delete_user(1, u)
PreSaveStep == \E w \in Workers : log_message_edits(w)
SaveTableStep == \E w \in Workers : save_table(w)
PostSaveStep == \E w \in Workers : create_message_notification(w)
PostDeleteStep == \E w \in Workers : cleanup_user_data(w)
FinishStep == \E w \in Workers : Finish(w)
UnreadStep == Quiet /\ \E user \in Usernames : for_user(1, user)

NextStore ==
    \/ CreateStep \/ SaveStep \/ DeleteMessageStep \/ DeleteUserStep \/ UnreadStep
    \/ PreSaveStep \/ SaveTableStep \/ PostSaveStep \/ PostDeleteStep \/ FinishStep

\* the message store, one call at a time
SpecStore == Init /\ [][NextStore]_vars

\* Calls as they come: the first process that is not busy takes the next one.
Takes(w) == ~Busy(w) /\ \A v \in 1..(w - 1) : Busy(v)

\* The concurrent calls: user1 writes to user2, the message is edited, one of
\* the two deletes the account.
ConcCreateStep ==
    /\ pk.message < MaxMessages
    /\ \E w \in Workers : Takes(w) /\ Create(w, "user1", "user2", "Original message", None)
ConcSaveStep ==
    \E w \in Workers, m \in messages, content \in Contents :
        Takes(w) /\ Save(w, m.sender, m, content, m.read)
ConcDeleteUserStep == \E w \in Workers, u \in Usernames : Takes(w) /\ delete_user(w, u)

NextStoreConc ==
    \/ ConcCreateStep \/ ConcSaveStep \/ ConcDeleteUserStep
    \/ PreSaveStep \/ SaveTableStep \/ PostSaveStep \/ PostDeleteStep \/ FinishStep

\* the message store, calls served concurrently
SpecStoreConc == Init /\ [][NextStoreConc]_vars

NextCascade ==
    \/ ConcCreateStep \/ ConcDeleteUserStep
    \/ PreSaveStep \/ SaveTableStep \/ PostSaveStep \/ PostDeleteStep \/ FinishStep

\* accounts deleted while messages are being sent
SpecCascade == Init /\ [][NextCascade]_vars

\* Replies, replies to replies, and the thread of any of them asked for.
ThreadCreateStep ==
    /\ Quiet
    /\ pk.message < MaxThread
    /\ \E parent \in 0..MaxThread : Create(1, "user1", "user2", "Original message", parent)
ThreadStep == Quiet /\ \E message \in messages : get_conversation_thread(1, message)

NextThread ==
    \/ ThreadCreateStep \/ ThreadStep
    \/ PreSaveStep \/ SaveTableStep \/ PostSaveStep \/ FinishStep

\* threads of replies and the thread queries
SpecThread == Init /\ [][NextThread]_vars

NextThreadDelete ==
    \/ ThreadCreateStep \/ DeleteMessageStep
    \/ PreSaveStep \/ SaveTableStep \/ PostSaveStep \/ FinishStep

\* threads of replies and the deletion of their messages
SpecThreadDelete == Init /\ [][NextThreadDelete]_vars

\* ------------------------------------------------- the conversations API
\* rest_framework.permissions.IsAuthenticated
IsAuthenticated(user) == user # Anonymous

\* IsParticipantOfConversation.has_permission
has_permission(user, method) ==
    IF ~IsAuthenticated(user) THEN FALSE
    ELSE IF method = "POST" THEN TRUE
    ELSE TRUE

\* MessageViewSet.get_permissions
get_permissions(action) ==
    IF action \in {"update", "partial_update", "destroy"}
    THEN <<"IsAuthenticated", "IsMessageSender">>
    ELSE <<"IsAuthenticated", "IsParticipantOfConversation">>

\* What one permission of the list answers for the request being served.
Permits(permission) ==
    IF permission = "IsAuthenticated" THEN IsAuthenticated(api.user)
    ELSE IF permission = "IsParticipantOfConversation"
         THEN has_permission(api.user, api.method)
    ELSE IsAuthenticated(api.user)

\* Conversation.objects.create(user1=..., user2=...)
CreateConversation(user1, user2) ==
    /\ api.at \in {"idle", "done"}
    /\ Cardinality(conversations) < MaxConversations
    /\ conversations' = conversations \cup {Conversation(Cardinality(conversations) + 1, user1, user2)}
    /\ UNCHANGED <<chat_messages, api>>
    /\ UNCHANGED <<users, messages, history, notifications, pk, job, clock, pipeline>>

\* POST to the message list: the view set's `create' action is dispatched.
PostMessage(user, conversation, content) ==
    /\ api.at \in {"idle", "done"}
    /\ Cardinality(chat_messages) < MaxChatMessages
    /\ api' = [action |-> "create", method |-> "POST", user |-> user,
               conversation |-> conversation, content |-> content,
               at |-> "permissions", status |-> None, kind |-> "none", target |-> None]
    /\ UNCHANGED <<conversations, chat_messages>>
    /\ UNCHANGED <<users, messages, history, notifications, pk, job, clock, pipeline>>

\* APIView.initial: every permission of get_permissions() must agree
check_permissions ==
    /\ api.at = "permissions"
    /\ LET permissions == get_permissions(api.action)
       IN  IF \A i \in DOMAIN permissions : Permits(permissions[i])
           THEN api' = [api EXCEPT !.at = "create"]
           ELSE api' = [api EXCEPT !.at = "done", !.status = Forbidden]
    /\ UNCHANGED <<conversations, chat_messages>>
    /\ UNCHANGED <<users, messages, history, notifications, pk, job, clock, pipeline>>

\* CreateModelMixin.create: serializer.is_valid, then MessageViewSet.perform_create
perform_create ==
    /\ api.at = "create"
    /\ IF \E c \in conversations : c.id = api.conversation
       THEN /\ chat_messages' = chat_messages \cup
                   {ChatMessage(Cardinality(chat_messages) + 1, api.user, api.conversation, api.content)}
            /\ api' = [api EXCEPT !.at = "done", !.status = Created]
       ELSE /\ api' = [api EXCEPT !.at = "done", !.status = BadRequest]
            /\ UNCHANGED chat_messages
    /\ UNCHANGED conversations
    /\ UNCHANGED <<users, messages, history, notifications, pk, job, clock, pipeline>>

CreateConversationStep == \E user1, user2 \in ChatUsers : CreateConversation(user1, user2)
PostMessageStep ==
    \E user \in ChatUsers \cup {Anonymous}, conversation \in 1..MaxConversations :
        PostMessage(user, conversation, "hello")

NextChats == CreateConversationStep \/ PostMessageStep \/ check_permissions \/ perform_create
\* message creation through the conversations API
SpecChats == Init /\ [][NextChats]_vars

\* IsParticipantOfConversation.has_object_permission; hasattr(obj, name) is
\* whether the row has the field
has_object_permission(user, method, obj) ==
    IF "user1" \in DOMAIN obj /\ "user2" \in DOMAIN obj
    THEN user \in {obj.user1, obj.user2}
    ELSE IF "conversation" \in DOMAIN obj
    THEN LET conversation == Row(conversations, obj.conversation)
             is_participant == user \in {conversation.user1, conversation.user2}
         IN  IF method \in SafeMethods THEN is_participant
             ELSE IF method \in {"PUT", "PATCH", "DELETE"} THEN obj.sender = user
             ELSE is_participant
    ELSE FALSE

\* APIView.check_object_permissions for a request of `user' on the row `obj'
\* under IsParticipantOfConversation: 403 when the permission refuses.
check_object_permissions(user, method, kind, obj) ==
    /\ api.at \in {"idle", "done"}
    /\ api' = [NoCall EXCEPT !.action = "object", !.method = method, !.user = user,
                             !.kind = kind, !.target = obj.id,
                             !.conversation = IF kind = "message" THEN obj.conversation ELSE obj.id,
                             !.at = "done",
                             !.status = IF has_object_permission(user, method, obj)
                                        THEN Ok ELSE Forbidden]
    /\ UNCHANGED <<conversations, chat_messages>>
    /\ UNCHANGED <<users, messages, history, notifications, pk, job, clock, pipeline>>

\* One conversation of user1 and user2, messages sent to it, and requests of
\* every method on the conversation and on its messages.
ObjConversationStep == CreateConversation("user1", "user2")
ObjPostStep == \E user \in ChatUsers : PostMessage(user, 1, "hello")
ObjConversationAccessStep ==
    \E user \in ChatUsers, method \in Methods, obj \in conversations :
        check_object_permissions(user, method, "conversation", obj)
ObjMessageAccessStep ==
    \E user \in ChatUsers, method \in Methods, obj \in chat_messages :
        check_object_permissions(user, method, "message", obj)

NextObject ==
    \/ ObjConversationStep \/ ObjPostStep \/ check_permissions \/ perform_create
    \/ ObjConversationAccessStep \/ ObjMessageAccessStep
\* object-level access to conversations and messages
SpecObject == Init /\ [][NextObject]_vars

\* ===================================================================== claims
\* The request of worker w has been through the rate limiter, whose decision
\* (and, when it admitted, whose cache.set) is complete.
RateDecided(w) ==
    /\ pc[w] \in {"role", "view", "done"}
    /\ "rate" \in Range(ran[w])
    /\ RateLimited(req[w])

RateDenied(w) == RateDecided(w) /\ resp[w].by = "rate"
RateAdmitted(w) == RateDecided(w) /\ resp[w].by # "rate"

\* The second at which the request of worker w arrived.
ArrivedAt(w) == audit[w][1].line.at

\* The admissions of the client of worker w before w's own request.
Prior(w) ==
    LET h == admitted[get_client_ip(req[w])]
    IN  IF RateAdmitted(w) THEN SubSeq(h, 1, Len(h) - 1) ELSE h

HasBody(w, status, phrase) == resp[w].status = status /\ phrase \in Range(resp[w].body)

\* C1: starting from no recorded requests, the first 5 qualifying POSTs of a
\* client are admitted, and a 6th one arriving less than 60 seconds after the
\* first is denied with 403 and a body containing "Rate limit exceeded".
C1_FiveAdmittedSixthDenied ==
    \A w \in Workers :
        RateDecided(w) =>
            /\ Len(Prior(w)) < 5 => RateAdmitted(w)
            /\ (Len(Prior(w)) = 5 /\ ArrivedAt(w) - Prior(w)[1] < 60) =>
                   /\ RateDenied(w)
                   /\ pc[w] = "done"
                   /\ HasBody(w, 403, "Rate limit exceeded")

\* A 6th POST within the minute of the first five has been denied.
C1_Witness ==
    \E w \in Workers :
        /\ RateDenied(w)
        /\ Len(Prior(w)) = 5
        /\ ArrivedAt(w) - Prior(w)[1] < 60
        /\ HasBody(w, 403, "Rate limit exceeded")

\* C2: under every interleaving of concurrent qualifying POSTs of one client,
\* no more than 5 of them are admitted within one 60-second window: of any 6
\* admissions of a client, the last is at least 60 seconds after the first.
C2_AtMostFivePerWindow ==
    \A k \in ClientIds :
        \A i \in 1..Len(admitted[k]) :
            i + 5 <= Len(admitted[k]) => admitted[k][i + 5] - admitted[k][i] >= 60

\* The admissions of the client of worker w in the 60 seconds up to the
\* arrival of w's request.
Trailing(w) == { i \in 1..Len(Prior(w)) : ArrivedAt(w) - Prior(w)[i] <= 60 }

\* C3: a qualifying POST is denied only if 5 requests of its client were
\* admitted within the trailing 60 seconds: admissions older than that no
\* longer count.
C3_DeniedOnlyIfFiveInTrailingWindow ==
    \A w \in Workers : RateDenied(w) => Cardinality(Trailing(w)) >= 5

\* The rate state of client k: its cache entry and its admissions.
RateState(k) == <<cache[k], admitted[k]>>

\* C4: the rate state of a client changes only in the cache.set of a request
\* of that very client, and each client is admitted until 5 of its own
\* requests were, whatever the other clients sent.
C4_NoSharedQuota ==
    /\ [][\A k \in ClientIds :
            RateState(k)' # RateState(k) =>
                \E w \in Workers :
                    /\ pc[w] = "rate_set"
                    /\ pc'[w] # "rate_set"
                    /\ get_client_ip(req[w]) = k]_vars
    /\ [](\A w \in Workers : RateDenied(w) => Len(Prior(w)) >= 5)

\* Both clients have been admitted 5 times within the same minute, and the
\* second proxied request found the first client's quota used up.
C4_Witness ==
    /\ \A k \in ClientIds :
          /\ Len(admitted[k]) = 5
          /\ admitted[k][5] < 60
          /\ cache[k].value = 5
    /\ \E w \in Workers : RateAdmitted(w) /\ get_client_ip(req[w]) = IpB

\* The user name an audit record of the request of worker w must show.
ShownUser(w) ==
    IF req[w].user.is_authenticated THEN req[w].user.username ELSE "Anonymous"

\* C5: every request, whatever becomes of it, has exactly one audit record,
\* written before any gate is evaluated, with the request's path and the
\* principal's name, "Anonymous" for an unauthenticated principal.
C5_OneAuditRecordFirst ==
    \A w \in Workers :
        pc[w] # "idle" =>
            IF pc[w] = "log"
            THEN audit[w] = <<>> /\ ran[w] = <<>>
            ELSE /\ Len(audit[w]) = 1
                 /\ audit[w][1].line.path = req[w].path
                 /\ audit[w][1].line.user = ShownUser(w)
                 /\ ran[w][1] = "log"
                 /\ \A i \in 2..Len(ran[w]) : ran[w][i] # "log"

\* An anonymous request the rate limiter denied has its one record.
C5_Witness ==
    \E w \in Workers :
        /\ RateDenied(w)
        /\ pc[w] = "done"
        /\ Len(audit[w]) = 1
        /\ audit[w][1].line.user = "Anonymous"
        /\ audit[w][1].line.path = PathSend

Stages == <<"log", "time", "rate", "role", "view">>
Gates == {"time", "rate", "role"}

\* The rate limiter found the client of worker w at its limit.
AtLimit(w) == RateLimited(req[w]) /\ count[w] >= 5

\* C6: the stages of a request run in the order logging, time gate, rate
\* limiter, role authorizer, view; the first gate that denies ends the request
\* with 403 and nothing runs after it; the view runs only when the three gates
\* allowed.
C6_FixedOrderFirstDenialWins ==
    \A w \in Workers :
        /\ Len(ran[w]) <= Len(Stages)
        /\ ran[w] = SubSeq(Stages, 1, Len(ran[w]))
        /\ resp[w].by \in Gates =>
              /\ pc[w] = "done"
              /\ ran[w][Len(ran[w])] = resp[w].by
              /\ resp[w].status = 403
        /\ ("time" \in Range(ran[w]) /\ TimeDenies(req[w])) => resp[w].by = "time"
        /\ ("rate" \in Range(ran[w]) /\ AtLimit(w)) => resp[w].by = "rate"
        /\ ("role" \in Range(ran[w]) /\ RoleDecision(req[w]) # "pass") => resp[w].by = "role"
        /\ "view" \in Range(ran[w]) =>
              /\ ~TimeDenies(req[w])
              /\ ~AtLimit(w)
              /\ RoleDecision(req[w]) = "pass"

\* A request that passed the time gate and the rate limiter was denied by
\* the role authorizer, and the view did not run.
C6_Witness ==
    \E w \in Workers :
        /\ pc[w] = "done"
        /\ resp[w].by = "role"
        /\ ran[w] = <<"log", "time", "rate", "role">>
        /\ RateAdmitted(w)

\* C8: on a GET, HEAD or OPTIONS request to a chat-prefixed path, with
\* enforcement on, the time gate denies (403, body containing "restricted")
\* exactly when the hour is below 9 or at least 18.
C8_TimeGateHalfOpenWindow ==
    \A w \in Workers :
        ( /\ "time" \in Range(ran[w])
          /\ req[w].method \in {"GET", "HEAD", "OPTIONS"}
          /\ ChatPrefixed(req[w].path)
          /\ enforce ) =>
            /\ (resp[w].by = "time") <=> (req[w].hour < 9 \/ req[w].hour >= 18)
            /\ (resp[w].by = "time") => (pc[w] = "done" /\ HasBody(w, 403, "restricted"))
            /\ req[w].hour \in {9, 17} => resp[w].by # "time"
            /\ req[w].hour \in {8, 18} => resp[w].by = "time"

\* A HEAD request to /api/chats/ at hour 18 was denied.
C8_Witness ==
    \E w \in Workers :
        /\ req[w].method = "HEAD"
        /\ req[w].path = PathApiChats
        /\ req[w].hour = 18
        /\ enforce
        /\ pc[w] = "done"
        /\ resp[w].by = "time"

\* C9: the time gate never denies a request whose path is not chat-prefixed,
\* nor a POST, PUT, PATCH or DELETE, at any hour.
C9_TimeGateSkipsOthers ==
    \A w \in Workers :
        ( \/ ~ChatPrefixed(req[w].path)
          \/ req[w].method \in {"POST", "PUT", "PATCH", "DELETE"} ) =>
            /\ resp[w].by # "time"
            /\ "time" \in Range(ran[w]) => pc[w] # "time" /\ Len(ran[w]) >= 2

\* A PATCH to a chat path at hour 23, with enforcement on, went past the gate.
C9_Witness ==
    \E w \in Workers :
        /\ req[w].method = "PATCH"
        /\ req[w].path = PathChats
        /\ req[w].hour = 23
        /\ enforce
        /\ "rate" \in Range(ran[w])

\* The request needs elevated permission.
Elevated(r) ==
    \/ \E p \in restricted_paths : Len(r.path) >= Len(p) /\ \A i \in 1..Len(p) : r.path[i] = p[i]
    \/ r.method = "DELETE" /\ ChatPrefixed(r.path)

\* C10: when a request needs elevated permission and its principal is
\* unauthenticated, the role authorizer denies with 403 and a body containing
\* "Authentication required", whatever roles or permissions the principal
\* carries.
C10_UnauthenticatedDeniedFirst ==
    \A w \in Workers :
        ( /\ "role" \in Range(ran[w])
          /\ Elevated(req[w])
          /\ ~req[w].user.is_authenticated ) =>
            /\ pc[w] = "done"
            /\ resp[w].by = "role"
            /\ HasBody(w, 403, "Authentication required")

\* An unauthenticated principal carrying every privilege was denied a DELETE.
C10_Witness ==
    \E w \in Workers :
        /\ req[w].user = AnonymousPrivileged
        /\ req[w].method = "DELETE"
        /\ req[w].path = PathMsgDelete
        /\ pc[w] = "done"
        /\ HasBody(w, 403, "Authentication required")

\* The roles a principal carries, in whichever representation.
Roles(user) ==
    (IF user.has_profile THEN {user.profile_role} ELSE {})
        \cup (IF user.has_role THEN {user.role} ELSE {})

Privileged(user) ==
    \/ user.is_staff
    \/ user.is_superuser
    \/ Roles(user) \cap {"admin", "moderator"} # {}
    \/ "chats.delete_message" \in user.perms
    \/ "chats.moderate_conversation" \in user.perms

\* The role authorizer has decided on the request of worker w.
RoleDecided(w) == "role" \in Range(ran[w]) /\ pc[w] \in {"view", "done"}

\* C11: when a request needs elevated permission and its principal is
\* authenticated, the role authorizer lets it proceed if and only if the
\* principal is staff or superuser, or its role is admin or moderator, or it
\* holds the delete-message or moderate-conversation permission; otherwise it
\* denies with 403 and a body containing "Only admins and moderators".
C11_PrivilegedProceedOthersDenied ==
    \A w \in Workers :
        ( /\ RoleDecided(w)
          /\ Elevated(req[w])
          /\ req[w].user.is_authenticated ) =>
            IF Privileged(req[w].user)
            THEN resp[w].by # "role"
            ELSE /\ pc[w] = "done"
                 /\ resp[w].by = "role"
                 /\ HasBody(w, 403, "Only admins and moderators")

\* The moderation of a conversation has been asked for by a principal with no
\* privilege, and the role authorizer has decided.
ModerationByOutsider(w) ==
    /\ RoleDecided(w)
    /\ req[w].method = "POST"
    /\ req[w].path = PathConvModerate
    /\ req[w].user.is_authenticated
    /\ ~Privileged(req[w].user)

\* C12: a POST by an authenticated principal without staff or superuser
\* status, admin or moderator role or moderation permission to
\* /chats/conversations/<id>/moderate/ is answered with 403 and never reaches
\* the moderation view.
C12_ModerationEndpointRestricted ==
    \A w \in Workers :
        ModerationByOutsider(w) =>
            /\ "view" \notin Range(ran[w])
            /\ pc[w] = "done"
            /\ resp[w].status = 403

\* The call of process w has returned (with or without an exception).
Returned(w, op) == job[w].op = op /\ job[w].at = "done"

NotificationsOf(m) == { n \in notifications : n.message = m.id }

\* The post_save receiver of message m is still to run.
BeingCreated(m) ==
    \E w \in Workers : job[w].at = "post_save" /\ job[w].instance.id = m.id

\* C13: creating a message produces exactly one Notification, for the
\* message's receiver, of type "new_message" and with isRead false; it is
\* there when the create call returns, and no later update of the message
\* produces another.
C13_OneNotificationPerCreate ==
    \A m \in messages :
        ~BeingCreated(m) =>
            /\ Cardinality(NotificationsOf(m)) = 1
            /\ \A n \in NotificationsOf(m) :
                 /\ n.user = m.receiver
                 /\ n.notification_type = "new_message"
                 /\ n.is_read = FALSE

\* A message has been created and then marked read by an update that has
\* returned; it still has its one notification.
C13_Witness ==
    /\ Returned(1, "save")
    /\ job[1].error = "none"
    /\ job[1].was.read = FALSE
    /\ job[1].instance.read = TRUE
    /\ job[1].instance \in messages
    /\ Cardinality(NotificationsOf(job[1].instance)) = 1

\* The history rows appended since the call of process w began.
Appended(w) == history \ job[w].rows

\* The call of process w was a save that asked for another content than the
\* one the message had.
ContentChange(w) == job[w].instance.content # job[w].was.content

\* C14: an update of a message's content from A to B, A different from B,
\* appends exactly one MessageHistory row, with oldContent A, and sets edited
\* to true; an update that leaves the content equal appends no row and leaves
\* edited as it was.
C14_HistoryOnContentChange ==
    \A w \in Workers :
        Returned(w, "save") =>
            LET before == job[w].was
                now == { m \in messages : m.id = before.id }
            IN  IF ContentChange(w)
                THEN /\ Cardinality(Appended(w)) = 1
                     /\ \A h \in Appended(w) :
                          h.message = before.id /\ h.old_content = before.content
                     /\ \A m \in now : m.edited = TRUE
                ELSE /\ Appended(w) = {}
                     /\ \A m \in now : m.edited = before.edited

\* C15: after the deletion of a user no Message with that user as sender or
\* receiver remains, and no MessageHistory or Notification that refers to
\* those messages or is addressed to the user.
C15_UserDeletionLeavesNothing ==
    \A w \in Workers :
        Returned(w, "delete_user") =>
            LET u == job[w].user IN
            /\ \A m \in messages : m.sender # u /\ m.receiver # u
            /\ \A n \in notifications : n.user # u /\ n.message \in Ids(messages)
            /\ \A h \in history : h.message \in Ids(messages)

\* C18: the history row of a content update records as editedBy the user who
\* made the update, also when that user is not the message's sender.
C18_HistoryRecordsEditor ==
    \A w \in Workers :
        ( Returned(w, "save") /\ ContentChange(w) ) =>
            \E h \in Appended(w) :
                /\ "edited_by" \in DOMAIN h
                /\ h.edited_by = job[w].user

\* All the rows `d' names are in the tables / none of them is.
AllPresent(d) ==
    /\ d.users \subseteq users
    /\ d.messages \subseteq Ids(messages)
    /\ d.history \subseteq Ids(history)
    /\ d.notifications \subseteq Ids(notifications)

AllVanished(d) ==
    /\ d.users \cap users = {}
    /\ d.messages \cap Ids(messages) = {}
    /\ d.history \cap Ids(history) = {}
    /\ d.notifications \cap Ids(notifications) = {}

C17_ConcurrentEditsEachRecorded ==
    \A w \in Workers, v \in Workers :
        ( /\ w # v
          /\ Returned(w, "save") /\ ContentChange(w)
          /\ Returned(v, "save") /\ ContentChange(v)
          /\ job[w].was.id = job[v].was.id
          /\ v \in job[w].peers ) =>
            \E h \in history, g \in history :
                /\ h # g
                /\ h.message = job[w].was.id /\ h.old_content = job[w].overwrote
                /\ g.message = job[v].was.id /\ g.old_content = job[v].overwrote

\* The ids of the messages that reply to a message of `ids'.
RepliesTo(ids) == { x.id : x \in { y \in messages : y.parent_message \in ids } }

\* The message, the replies to it, and the replies to those.
TwoLevels(m) == {m.id} \cup RepliesTo({m.id}) \cup RepliesTo(RepliesTo({m.id}))

C20_ThreadOrderedBySendTime ==
    \A w \in Workers :
        Returned(w, "get_conversation_thread") =>
            \A i \in DOMAIN job[w].result, j \in DOMAIN job[w].result :
                i < j => Row(messages, job[w].result[i]).timestamp
                            <= Row(messages, job[w].result[j]).timestamp

\* C21: after any sequence of message creations, read-flag updates and
\* deletions, unreadForUser(u) returns exactly the stored messages whose
\* receiver is u and whose read flag is false: none addressed to another
\* user, none that is read, and every unread message addressed to u.
C21_UnreadForUserExact ==
    \A w \in Workers :
        Returned(w, "for_user") =>
            /\ \A i \in DOMAIN job[w].result :
                 \E m \in messages :
                    /\ m.id = job[w].result[i]
                    /\ m.receiver = job[w].user
                    /\ ~m.read
            /\ \A m \in messages :
                 (m.receiver = job[w].user /\ ~m.read) => m.id \in Range(job[w].result)

\* user2 has two messages, one of them marked read by an update, and asks
\* for the unread ones: only the other one is returned.
C21_Witness ==
    /\ Returned(1, "for_user")
    /\ job[1].user = "user2"
    /\ Len(job[1].result) = 1
    /\ \E m \in messages : m.receiver = "user2" /\ m.read
    /\ \E m \in messages : m.receiver = "user2" /\ ~m.read

\* A POST on a chat-prefixed path or on a path containing "message".
Qualifying(r) ==
    /\ r.method = "POST"
    /\ \/ ChatPrefixed(r.path)
       \/ Contains(Lower(r.path), <<"m","e","s","s","a","g","e">>)

\* The rate limiter has run for the request of worker w and is done with it.
PastRateGate(w) == "rate" \in Range(ran[w]) /\ pc[w] \in {"role", "view", "done"}

\* The cache entry of the client of worker w.
Entry(w) == cache[get_client_ip(req[w])]

\* C22: being an admin does not bypass the rate limit. The decision on a
\* qualifying POST is fixed by the client identity's rate state alone,
\* whoever the principal is: the request is denied, with 403, exactly when
\* the identity's entry, still valid at the arrival, counts 5; otherwise it
\* is admitted and recorded in the entry. So a staff principal's 6th
\* qualifying POST in the window is denied.
C22_AdminIsRateLimited ==
    \A w \in Workers :
        ( PastRateGate(w) /\ Qualifying(req[w]) ) =>
            IF resp[w].by = "rate"
            THEN /\ Entry(w).value >= 5
                 /\ ArrivedAt(w) < Entry(w).expires
                 /\ resp[w].status = 403
            ELSE /\ Entry(w).value \in 1..5
                 /\ Entry(w).expires = ArrivedAt(w) + 60

\* The staff user's POST is denied: five requests of the address were
\* admitted in the window.
C22_Witness ==
    \E w \in Workers :
        /\ req[w].user = StaffUser
        /\ req[w].method = "POST"
        /\ req[w].path = PathSend
        /\ resp[w].by = "rate"
        /\ HasBody(w, 403, "Rate limit exceeded")
        /\ Len(admitted[IpA]) = 5

\* The stages that ran for the request of worker w and the response it got;
\* what the view answers is the view's business.
Outcome(w) ==
    [ran |-> ran[w], body |-> resp[w].body, by |-> resp[w].by,
     status |-> IF resp[w].by = "view" THEN 0 ELSE resp[w].status]

\* C23: a request whose append to requests.log fails is never ended by the
\* logging middleware; its record goes to the fallback logger, and once
\* answered it has run the same gates and got the same response as the same
\* request served with a working sink.
C23_SinkFailureChangesNothing ==
    /\ \A w \in Workers :
          (pc[w] \notin {"idle", "log"} /\ ~req[w].sink_ok) =>
              /\ resp[w].by # "log"
              /\ Len(ran[w]) >= 2 \/ pc[w] = "time"
              /\ Len(audit[w]) = 1
              /\ audit[w][1].channel = "logger"
              /\ audit[w][1].line = [at |-> 0, user |-> ShownUser(w), path |-> req[w].path]
    /\ (pc[1] = "done" /\ pc[2] = "done" /\ req[1].sink_ok /\ req[2] = SinkFails(req[1])) =>
          Outcome(2) = Outcome(1)

\* Both servings of a staff user's send were denied by the rate limiter, the
\* second one with its record in the fallback logger.
C23_Witness ==
    /\ pc[1] = "done" /\ pc[2] = "done"
    /\ req[1].sink_ok /\ req[2] = SinkFails(req[1])
    /\ req[1].user = StaffUser /\ req[1].method = "POST"
    /\ resp[1].by = "rate" /\ resp[2].by = "rate"
    /\ audit[1][1].channel = "requests.log" /\ audit[2][1].channel = "logger"

Serving(w) == pc[w] \notin {"idle", "done"}

\* C24: no step of a request that is not a POST on a chat-prefixed or
\* "message"-containing path changes the count or expiry stored for any
\* identity, and the rate limiter hands every such request on to the role
\* gate without a response of its own.
C24_RateLimitOnlyForQualifying ==
    [][ \A w \in Workers :
          (Serving(w) /\ ~Qualifying(req[w])) =>
              /\ cache' = cache
              /\ admitted' = admitted
              /\ resp'[w].by # "rate"
              /\ (pc[w] = "rate" /\ pc'[w] # "rate") => (pc'[w] = "role" /\ resp'[w] = resp[w]) ]_vars

\* A GET of the send path was answered by the view while the client's quota
\* was used up.
C24_Witness ==
    \E w \in Workers :
        /\ pc[w] = "done" /\ req[w].method = "GET" /\ req[w].path = PathSend
        /\ resp[w].by = "view"
        /\ cache[IpA].value = 5 /\ clock < cache[IpA].expires
        /\ Len(admitted[IpA]) = 5 /\ ArrivedAt(w) >= admitted[IpA][5]

Participants(id) == UNION { {c.user1, c.user2} : c \in { x \in conversations : x.id = id } }

\* C26: every stored message was sent by a participant of its conversation,
\* and a create request of an authenticated user who is not a participant of
\* the conversation it names is answered without a message being stored.
C26_OnlyParticipantsCreate ==
    /\ \A m \in chat_messages : m.sender \in Participants(m.conversation)
    /\ ( /\ api.at = "done" /\ api.action = "create"
         /\ IsAuthenticated(api.user)
         /\ api.user \notin Participants(api.conversation) ) => api.status # Created

\* C27: no step of a qualifying POST up to and including the rate limiter's
\* denial changes the count or the expiry stored for any identity: the
\* denying step ends the request and leaves the cache as it found it.
C27_DeniedPostRecordsNothing ==
    [][ \A w \in Workers :
          /\ ( Qualifying(req[w]) /\ pc[w] \in {"log", "time"} ) =>
                 ( cache' = cache /\ admitted' = admitted )
          /\ ( Qualifying(req[w]) /\ pc[w] = "rate" /\ resp'[w].by = "rate" ) =>
                 ( cache' = cache /\ admitted' = admitted /\ pc'[w] = "done" ) ]_vars

\* A POST was denied 59 seconds after the fifth admitted one, and the entry
\* still expires 60 seconds after that admission.
C27_Witness ==
    \E w \in Workers :
        /\ RateDenied(w)
        /\ Len(admitted[IpA]) = 5
        /\ ArrivedAt(w) = admitted[IpA][5] + 59
        /\ cache[IpA] = [value |-> 5, expires |-> admitted[IpA][5] + 60]

\* The admissions of identity k in the 60 seconds that end at instant t.
AdmittedIn(k, t) == { i \in DOMAIN admitted[k] : t - 60 < admitted[k][i] /\ admitted[k][i] <= t }

\* C28: with requests served one at a time, every identity has at most 5
\* admitted qualifying POSTs in the interval (t-60, t], for every instant t
\* up to the present.
C28_AtMostFivePerTrailingMinute ==
    \A k \in ClientIds : \A t \in 0..clock : Cardinality(AdmittedIn(k, t)) <= 5

\* Five POSTs were admitted at one instant and a sixth exactly 60 seconds later.
C28_Witness ==
    /\ Len(admitted[IpA]) = 6
    /\ admitted[IpA][6] = admitted[IpA][5] + 60
    /\ admitted[IpA][1] = admitted[IpA][5]
    /\ Cardinality(AdmittedIn(IpA, admitted[IpA][5] + 59)) = 5

\* C29: with ENFORCE_CHAT_HOURS off, the time gate hands every request on to
\* the rate limiter, whatever its path, method and hour.
C29_DisabledTimeGateAllows ==
    \A w \in Workers :
        ( ~enforce /\ "time" \in Range(ran[w]) ) =>
            /\ resp[w].by # "time"
            /\ pc[w] \in {"rate", "rate_set", "role", "view", "done"}
            /\ Len(ran[w]) >= 3 \/ pc[w] = "rate"

\* With enforcement off, a GET of /chats/ at hour 3 was answered by the view.
C29_Witness ==
    \E w \in Workers :
        /\ ~enforce
        /\ req[w].method = "GET"
        /\ req[w].path = PathChats
        /\ req[w].hour = 3
        /\ pc[w] = "done"
        /\ resp[w].by = "view"

\* The position of the first comma of s, or one past its end.
FirstComma(s) ==
    IF \E i \in DOMAIN s : s[i] = ","
    THEN CHOOSE i \in DOMAIN s : s[i] = "," /\ \A j \in 1..(i - 1) : s[j] # ","
    ELSE Len(s) + 1

\* The identity the specification derives for a request.
Identity(r) ==
    IF r.HTTP_X_FORWARDED_FOR # <<>>
    THEN SubSeq(r.HTTP_X_FORWARDED_FOR, 1, FirstComma(r.HTTP_X_FORWARDED_FOR) - 1)
    ELSE r.REMOTE_ADDR

\* C30: the rate limiter judges a qualifying POST by the count stored for
\* the first forwarded-for entry of the request, or for its peer address when
\* there is no such header, and an admission adds one to that count and
\* leaves the counts of all other identities as they were.
C30_QuotaKeyedByDerivedIdentity ==
    [][ \A w \in Workers :
          /\ ( pc[w] = "rate" /\ Qualifying(req[w]) ) =>
                 /\ cache' = cache
                 /\ (resp'[w].by = "rate") <=> (cache[Identity(req[w])].value >= 5)
          /\ ( pc[w] = "rate_set" ) =>
                 /\ cache'[Identity(req[w])].value = cache[Identity(req[w])].value + 1
                 /\ \A k \in ClientIds \ {Identity(req[w])} : cache'[k] = cache[k] ]_vars

\* A POST from peer 10.0.0.1 forwarded for 10.0.0.2 was denied on the used-up
\* quota of 10.0.0.2 while the quota of 10.0.0.1 was not used up.
C30_Witness ==
    \E w \in Workers :
        /\ req[w].HTTP_X_FORWARDED_FOR = XffBviaA
        /\ req[w].REMOTE_ADDR = IpA
        /\ RateDenied(w)
        /\ cache[IpB].value = 5
        /\ cache[IpA].value \in 1..4

\* C31: every history row and every notification refers to a stored message,
\* whatever messages and users have been created, edited and deleted.
C31_RowsReferToStoredMessages ==
    /\ \A h \in history : h.message \in Ids(messages)
    /\ \A n \in notifications : n.message \in Ids(messages)

\* A message that had a notification was deleted, its notification with it,
\* while another message and its notification are still stored.
C31_Witness ==
    /\ Returned(1, "delete_message")
    /\ job[1].was.id \notin Ids(messages)
    /\ pk.notification = 2
    /\ Cardinality(notifications) = 1
    /\ Cardinality(messages) = 1

\* C33: a request on a conversation, or on a message of a conversation, by a
\* user who is not one of the conversation's participants is refused, for
\* every method, also when the user is the message's sender.
C33_ObjectAccessOnlyForParticipants ==
    ( /\ api.action = "object" /\ api.at = "done"
      /\ api.user \notin Participants(api.conversation) ) => api.status = Forbidden

\* The second of the last admission of identity k.
LastAdmitted(k) == admitted[k][Len(admitted[k])]

\* C34: a qualifying POST that reaches the rate limiter 60 seconds or more
\* after the last admission of its identity is admitted, whatever was denied
\* since that admission.
C34_DenialsDoNotProlongLockout ==
    [][ \A w \in Workers :
          ( /\ pc[w] = "rate" /\ Qualifying(req[w])
            /\ admitted[Identity(req[w])] # <<>>
            /\ clock >= LastAdmitted(Identity(req[w])) + 60 ) =>
              ( pc'[w] = "rate_set" /\ resp'[w].by # "rate" ) ]_vars

\* After five admissions at second 0 a POST was denied at second 59, and the
\* next one, at second 118, was admitted.
C34_Witness ==
    \E w \in Workers, v \in Workers :
        /\ RateDenied(v) /\ ArrivedAt(v) = 59
        /\ RateAdmitted(w) /\ ArrivedAt(w) = 118
        /\ admitted[IpA] = <<0, 0, 0, 0, 0, 118>>

\* C35: under every interleaving of concurrent requests, the counter stored
\* for an identity is absent or an integer from 1 to 5.
C35_StoredCounterWithinLimit ==
    \A k \in ClientIds : cache[k] = NoEntry \/ cache[k].value \in 1..5

\* Six POSTs of one client were admitted within 60 seconds by a race, and
\* the stored counter is 5.
C35_Witness ==
    /\ Len(admitted[IpA]) = 6
    /\ admitted[IpA][6] - admitted[IpA][1] < 60
    /\ cache[IpA].value = 5
    /\ clock < cache[IpA].expires

\* C36: a qualifying POST the rate limiter admitted has been counted, with a
\* fresh expiry, from the moment it leaves the rate limiter, and stays counted
\* when the role authorizer denies it and whatever the view answers.
C36_QuotaConsumedAtRateGate ==
    \A w \in Workers :
        RateAdmitted(w) =>
            /\ admitted[Identity(req[w])] # <<>>
            /\ LastAdmitted(Identity(req[w])) = ArrivedAt(w)
            /\ cache[Identity(req[w])] = [value |-> count[w] + 1, expires |-> ArrivedAt(w) + 60]

\* A POST to the delete area by a user without the role took the fifth and
\* last admission of its client and was then refused by the role authorizer.
C36_Witness ==
    \E w \in Workers :
        /\ req[w].method = "POST" /\ req[w].path = PathDeleteArea
        /\ req[w].user = RegularUser
        /\ pc[w] = "done"
        /\ ran[w] = <<"log", "time", "rate", "role">>
        /\ resp[w].by = "role"
        /\ cache[IpA].value = 5
        /\ clock < cache[IpA].expires

\* C37: between calls, the notifications and the stored messages correspond
\* one to one: each message has one notification, addressed to its receiver,
\* and each notification is the one of a stored message.
C37_NotificationsMatchMessages ==
    Quiet =>
        /\ \A m \in messages :
             \E n \in notifications :
                 /\ n.message = m.id /\ n.user = m.receiver
                 /\ \A o \in notifications : o.message = m.id => o = n
        /\ \A n \in notifications :
             \E m \in messages : n.message = m.id /\ n.user = m.receiver
        /\ Cardinality(notifications) = Cardinality(messages)

\* Two messages were created, one was marked read and one deleted; the
\* message that is left has its notification.
C37_Witness ==
    /\ Quiet
    /\ pk.message = 2
    /\ Cardinality(messages) = 1
    /\ Cardinality(notifications) = 1
    /\ \E m \in messages : m.read

\* The history rows of the message with the given id, among `rows'.
HistoryOf(rows, id) == { h \in rows : h.message = id }

\* C38: when a save of a message returns, the message has one history row
\* more than before if the save asked for another content and as many as
\* before if not; edited is true exactly when the message has a history row,
\* and a save does not reset it.
C38_EditedCountsContentChanges ==
    \A w \in Workers :
        Returned(w, "save") =>
            LET id == job[w].was.id
                change == IF ContentChange(w) THEN 1 ELSE 0
            IN  /\ Cardinality(HistoryOf(history, id)) =
                       Cardinality(HistoryOf(job[w].rows, id)) + change
                /\ \A m \in messages :
                     m.id = id =>
                         /\ m.edited <=> HistoryOf(history, id) # {}
                         /\ job[w].was.edited => m.edited

\* C39: the parent of every stored message is a stored message, and when the
\* delete of a message has returned, neither the message nor a reply to it nor
\* a notification or history row of any message it took along is stored.
C39_RepliesDeletedWithParent ==
    /\ \A m \in messages : m.parent_message # None => m.parent_message \in Ids(messages)
    /\ \A w \in Workers :
          Returned(w, "delete_message") =>
              /\ \A m \in messages : m.id # job[w].was.id /\ m.parent_message # job[w].was.id
              /\ Ids(job[w].deleted) \cap Ids(messages) = {}
              /\ \A n \in notifications : n.message \notin Ids(job[w].deleted)
              /\ \A h \in history : h.message \notin Ids(job[w].deleted)

\* The delete of a message took along a reply to it and a reply to that
\* reply, with their notifications, and left an unrelated message.
C39_Witness ==
    /\ Returned(1, "delete_message")
    /\ \E a \in job[1].deleted, b \in job[1].deleted :
          /\ a.parent_message = job[1].was.id
          /\ b.parent_message = a.id
    /\ Cardinality(messages) = 1
    /\ Cardinality(notifications) = 1
====
